---- MODULE Spec2Model ----
(***************************************************************************)
(* Model of the goal-execution core of sdm-core: LocalBuilder.initiateBuild *)
(* with its build-identifier allocator (obtainBuildIdentifier), its status  *)
(* updates (onStarted / onExit) and its tag / artifact-link steps.          *)
(*                                                                          *)
(* Every await of the TypeScript code is one step of the invocation that    *)
(* executes it, so that invocations on the same host interleave at every    *)
(* await.  A collaborator call either returns or throws (rejects).          *)
(***************************************************************************)
EXTENDS Integers, Sequences, FiniteSets, TLC

\* ------------------------------------------------------------------ bounds
\* Number of initiateBuild invocations started in one behaviour, when they
\* interleave and when they run one after the other.
MaxBuilds == 2
MaxSeqBuilds == 3
\* Value of the counter of a repository that already has a record at start.
MaxStored == 9

\* ------------------------------------------------------------- universes
Procs == {1, 2}
Repos == {"r1", "r2"}

NoErr == "none"
StartErr == "startErr"      \* thrown by startBuild
StatusErr == "statusErr"    \* thrown by updateBuildStatus
RunErr == "runErr"          \* rb.buildResult rejected
AllocErr == "allocErr"      \* thrown by graphClient.query / messageClient.send
VersionErr == "versionErr"  \* thrown by readSdmVersion
TagErr == "tagErr"          \* thrown by createTag / createTagReference
LinkErr == "linkErr"        \* thrown by storeFile / postLinkImageWebhook
BackendMessages == {"compile failed"}
Versions == {"1.0.0-2018"}

\* --------------------------------------------------- identifier strings
\* An identifier is a decimal string, kept as its sequence of digits.
RECURSIVE NumToStr(_)
\* Number.prototype.toString of a non-negative integer
NumToStr(n) == IF n < 10 THEN <<n>> ELSE NumToStr(n \div 10) \o <<n % 10>>

RECURSIVE StrToNum(_)
\* unary plus applied to a decimal string
StrToNum(s) == IF s = <<>> THEN 0
               ELSE 10 * StrToNum(SubSeq(s, 1, Len(s) - 1)) + s[Len(s)]

\* (+buildIdentifier.identifier).toString(): the mutant forgets the "+ 1"
BumpNoIncrement(identifier) == NumToStr(StrToNum(identifier))

\* (+buildIdentifier.identifier + 1).toString()
Bump(identifier) == NumToStr(StrToNum(identifier) + 1)

\* the mutant starts from the first record whenever there is one
SelectFirstRecord(recs) == IF Len(recs) >= 1 THEN recs[1] ELSE <<0>>

\* The record the allocator starts from: the single record of the query
\* result, else a fresh record with identifier "0".
SelectIdentifier(recs) == IF Len(recs) = 1 THEN recs[1] ELSE <<0>>

\* messageClient.send of the bumped record: the record replaces the record
\* kept for the repository (duplicates, when present, stay duplicates).
Persist(recs, identifier) ==
    IF Len(recs) <= 1 THEN <<identifier>>
    ELSE <<identifier>> \o SubSeq(recs, 2, Len(recs))

\* ------------------------------------------------------- handler results
Success == [code |-> 0, message |-> "none"]

\* failure(err) of automation-client: code 1, message err.message
Failure(err) == [code |-> 1, message |-> err]

\* the promise of initiateBuild rejected with err: no HandlerResult
Escaped(err) == [code |-> -1, message |-> err]

\* the promise of initiateBuild is still pending
NoResult == [code |-> -2, message |-> "none"]

\* the mutant returns Success whatever the build result
BuildResultAlwaysSuccess(brError, brMessage) == Success

\* return br.error ? { code: 1, message: br.message } : Success
BuildResultToHandlerResult(brError, brMessage) ==
    IF brError THEN [code |-> 1, message |-> brMessage] ELSE Success

\* the status onExit reports
ExitStatus(success) == IF success THEN "passed" ELSE "failed"

\* ---------------------------------------------------------------- state
VARIABLES
    store,       \* persisted SdmBuildIdentifier records of each repository
    store0,      \* the records each repository had at the start (history)
    tagObjs,     \* tag objects created (createTag)
    tagRefs,     \* tag references created (createTagReference)
    nbuilds,     \* invocations started so far
    allocated,   \* identifiers returned by the allocator, per repository
    pc,          \* position of each invocation
    repo,        \* repository of each invocation (push.owner/name/providerId)
    qres,        \* result.SdmBuildIdentifier of the allocator's query
    buildNo,     \* buildNumber of the invocation
    rb,          \* the running build returned by startBuild
    br,          \* what awaiting rb.buildResult gave
    version,     \* what readSdmVersion returned
    err,         \* the error caught by initiateBuild
    exitErr,     \* the error caught (and logged) by onExit
    trace,       \* the collaborator calls of the invocation, in order
    result,      \* the HandlerResult of the invocation
    docker,      \* one invocation of the goal of executeDockerBuild
    versioner,   \* one invocation of NodeProjectVersioner
    fingerprint, \* one invocation of the goal of executeFingerprinting
    tagging,     \* the invocations of the goal of executeTag
    progressLog, \* a log factory and the logs it created
    deploy       \* one invocation of OnDeployStatus.handle

\* the state of the goals other than the build
goalVars == <<docker, versioner, fingerprint, tagging, progressLog, deploy>>

\* the state of initiateBuild, but for the tag store
buildVars == <<store, store0, nbuilds, allocated, pc, repo, qres, buildNo,
               rb, br, version, err, exitErr, trace, result>>

vars == <<store, store0, tagObjs, tagRefs, nbuilds, allocated,
          pc, repo, qres, buildNo, rb, br, version, err, exitErr, trace, result,
          docker, versioner, fingerprint, tagging, progressLog, deploy>>

NoBuild == [started |-> FALSE, art |-> FALSE, url |-> FALSE]
NoBr == [outcome |-> "none", message |-> "none"]

\* one collaborator call: its name, its argument, whether a build URL was
\* passed, and the build number passed
Ev(op, arg, url, no) == [op |-> op, arg |-> arg, url |-> url, no |-> no]

\* the mutant reports the status without the build number
StatusEvWithoutNumber(p, state) == Ev("updateBuildStatus", state, rb[p].url, <<>>)

\* updateBuildStatus(runningBuild, status, branch, buildNo, ctx)
StatusEv(p, state) == Ev("updateBuildStatus", state, rb[p].url, buildNo[p])

\* no invocation of executeDockerBuild
DockerIdle ==
    [pc |-> "idle", registry |-> <<>>, preps |-> 0, finder |-> FALSE,
     i |-> 0, trace |-> <<>>, result |-> NoResult]

\* no invocation of NodeProjectVersioner
VersionerIdle ==
    [pc |-> "idle", branch |-> <<>>, defaultBranch |-> <<>>, declared |-> <<>>,
     timestamp |-> <<>>, version |-> <<>>, exit |-> 0, packageJson |-> <<>>,
     result |-> <<>>]

\* no invocation of executeFingerprinting
FingerprintIdle ==
    [pc |-> "idle", applicable |-> <<>>, listeners |-> 0, relevant |-> <<>>,
     computed |-> <<>>, fingerprints |-> <<>>, calls |-> <<>>,
     project |-> "none", result |-> NoResult]

\* Number of invocations of executeTag.
MaxTagRuns == 2

TagProcs == 1..MaxTagRuns

\* no invocation of executeTag; the tag objects and the tag references of
\* the remote repository, and the createTagReference calls so far
TaggingIdle ==
    [runs |-> [q \in TagProcs |->
                  [pc |-> "idle", commit |-> "none", version |-> "none",
                   attempted |-> <<>>, result |-> NoResult]],
     objects |-> <<>>, refs |-> <<>>, log |-> <<>>]

\* no log factory was created
ProgressLogIdle ==
    [pc |-> "idle", rolarBaseUrl |-> "undefined", persistentLogFactory |-> "none",
     goal |-> "none", persistentLog |-> <<>>, rolarUp |-> FALSE,
     logs |-> <<>>, result |-> NoResult]

\* no invocation of OnDeployStatus.handle
DeployIdle ==
    [pc |-> "idle", context |-> "none", listeners |-> 0, calls |-> <<>>,
     result |-> NoResult]

\* no goal other than the build is invoked
GoalsIdle ==
    /\ docker = DockerIdle
    /\ versioner = VersionerIdle
    /\ fingerprint = FingerprintIdle
    /\ tagging = TaggingIdle
    /\ progressLog = ProgressLogIdle
    /\ deploy = DeployIdle

\* The records at the start: no repository was seen before, or r1 has its
\* single record and r2 has duplicate records.
InitStores ==
    { [r \in Repos |-> <<>>],
      [r \in Repos |-> IF r = "r1" THEN <<NumToStr(MaxStored)>>
                                   ELSE <<NumToStr(1), NumToStr(MaxStored)>>] }

Init ==
    /\ store \in InitStores
    /\ store0 = store
    /\ tagObjs = {}
    /\ tagRefs = {}
    /\ nbuilds = 0
    /\ allocated = [r \in Repos |-> <<>>]
    /\ pc = [p \in Procs |-> "idle"]
    /\ repo = [p \in Procs |-> "r1"]
    /\ qres = [p \in Procs |-> <<>>]
    /\ buildNo = [p \in Procs |-> <<>>]
    /\ rb = [p \in Procs |-> NoBuild]
    /\ br = [p \in Procs |-> NoBr]
    /\ version = [p \in Procs |-> "none"]
    /\ err = [p \in Procs |-> NoErr]
    /\ exitErr = [p \in Procs |-> NoErr]
    /\ trace = [p \in Procs |-> <<>>]
    /\ result = [p \in Procs |-> NoResult]
    /\ GoalsIdle

\* ---------------------------------------------------- steps of a handler
Call(p, ev) == trace' = [trace EXCEPT ![p] = Append(@, ev)]

Goto(p, label) == pc' = [pc EXCEPT ![p] = label]

\* the invocation returns res (or rejects, when res is Escaped(..))
Return(p, res) ==
    /\ result' = [result EXCEPT ![p] = res]
    /\ pc' = [pc EXCEPT ![p] = "done"]

\* The dispatcher invokes initiateBuild for a push to repository r.
Start(p, r) ==
    /\ pc[p] \in {"idle", "done"}
    /\ UNCHANGED goalVars
    /\ nbuilds' = nbuilds + 1
    /\ pc' = [pc EXCEPT ![p] = "query"]
    /\ repo' = [repo EXCEPT ![p] = r]
    /\ qres' = [qres EXCEPT ![p] = <<>>]
    /\ buildNo' = [buildNo EXCEPT ![p] = <<>>]
    /\ rb' = [rb EXCEPT ![p] = NoBuild]
    /\ br' = [br EXCEPT ![p] = NoBr]
    /\ version' = [version EXCEPT ![p] = "none"]
    /\ err' = [err EXCEPT ![p] = NoErr]
    /\ exitErr' = [exitErr EXCEPT ![p] = NoErr]
    /\ trace' = [trace EXCEPT ![p] = <<>>]
    /\ result' = [result EXCEPT ![p] = NoResult]
    /\ UNCHANGED <<store, store0, tagObjs, tagRefs, allocated>>


\* ------------------------------------------- obtainBuildIdentifier (219-251)
\* await ctx.graphClient.query(...): the records of the repository
AllocatorQuery(p) ==
    /\ pc[p] = "query"
    /\ UNCHANGED goalVars
    /\ Call(p, Ev("query", repo[p], FALSE, <<>>))
    /\ \/ /\ qres' = [qres EXCEPT ![p] = store[repo[p]]]
          /\ Goto(p, "send")
          /\ UNCHANGED result
       \/ /\ Return(p, Escaped(AllocErr))
          /\ UNCHANGED qres
    /\ UNCHANGED <<store, store0, tagObjs, tagRefs, nbuilds,
                   allocated, repo, buildNo, rb, br, version, err, exitErr>>

\* the record sent for persistence
BumpedIdentifier(p) == Bump(SelectIdentifier(qres[p]))

\* await ctx.messageClient.send(bumpedBuildIdentifier, ...) and the return of
\* bumpedBuildIdentifier.identifier to initiateBuild
AllocatorSend(p) ==
    /\ pc[p] = "send"
    /\ UNCHANGED goalVars
    /\ Call(p, Ev("send", repo[p], FALSE, BumpedIdentifier(p)))
    /\ \/ /\ store' = [store EXCEPT ![repo[p]] = Persist(@, BumpedIdentifier(p))]
          /\ buildNo' = [buildNo EXCEPT ![p] = BumpedIdentifier(p)]
          /\ allocated' = [allocated EXCEPT ![repo[p]] = Append(@, BumpedIdentifier(p))]
          /\ Goto(p, "start")
          /\ UNCHANGED result
       \/ /\ Return(p, Escaped(AllocErr))
          /\ UNCHANGED <<store, buildNo, allocated>>
    /\ UNCHANGED <<store0, tagObjs, tagRefs, nbuilds,
                   repo, qres, rb, br, version, err, exitErr>>

\* --------------------------------------------------- initiateBuild (119-170)
\* const rb = await this.startBuild(...)
StartBuild(p) ==
    /\ pc[p] = "start"
    /\ UNCHANGED goalVars
    /\ Call(p, Ev("startBuild", repo[p], FALSE, buildNo[p]))
    /\ \/ /\ \E art \in BOOLEAN :
                rb' = [rb EXCEPT ![p] = [started |-> TRUE, art |-> art, url |-> TRUE]]
          /\ Goto(p, "onStarted")
          /\ UNCHANGED err
       \/ /\ err' = [err EXCEPT ![p] = StartErr]
          /\ Goto(p, "startFailed")
          /\ UNCHANGED rb
    /\ UNCHANGED <<store, store0, tagObjs, tagRefs, nbuilds,
                   allocated, repo, qres, buildNo, br, version, result, exitErr>>

\* await this.onStarted(...): updateBuildStatus(runningBuild, "started", ..)
OnStarted(p) ==
    /\ pc[p] = "onStarted"
    /\ UNCHANGED goalVars
    /\ Call(p, StatusEv(p, "started"))
    /\ \/ /\ Goto(p, "await")
          /\ UNCHANGED err
       \/ /\ err' = [err EXCEPT ![p] = StatusErr]
          /\ Goto(p, "startFailed")
    /\ UNCHANGED <<store, store0, tagObjs, tagRefs, nbuilds,
                   allocated, repo, qres, buildNo, rb, br, version, result, exitErr>>

\* const br = await rb.buildResult: a result without error, a result with
\* an application error, or a rejection (caught by the inner catch)
AwaitBuildResult(p) ==
    /\ pc[p] = "await"
    /\ UNCHANGED goalVars
    /\ Call(p, Ev("buildResult", repo[p], FALSE, buildNo[p]))
    /\ \/ /\ br' = [br EXCEPT ![p] = [outcome |-> "ok", message |-> "none"]]
          /\ UNCHANGED err
       \/ /\ \E m \in BackendMessages :
                br' = [br EXCEPT ![p] = [outcome |-> "error", message |-> m]]
          /\ UNCHANGED err
       \/ /\ br' = [br EXCEPT ![p] = [outcome |-> "throw", message |-> "none"]]
          /\ err' = [err EXCEPT ![p] = RunErr]
    /\ Goto(p, "onExit")
    /\ UNCHANGED <<store, store0, tagObjs, tagRefs, nbuilds,
                   allocated, repo, qres, buildNo, rb, version, result, exitErr>>

\* the value initiateBuild returns once onExit is over: line 144 after the
\* awaited result, line 158 in the inner catch
ExitResult(p) ==
    IF br[p].outcome = "throw" THEN Failure(err[p])
    ELSE BuildResultToHandlerResult(br[p].outcome = "error", br[p].message)

\* the mutant lets an error of onExit reach the inner catch of initiateBuild
OnExitErrorPropagates(p, e) == Failure(e)

\* catch (err) { logger.warn(...) } of onExit: the error is swallowed and
\* initiateBuild goes on to its return statement
OnExitErrorSwallowed(p, e) == ExitResult(p)

\* the mutant reports "failed" from the catch block of onExit
OnExitCatchReportsFailed(p) == <<StatusEv(p, "failed")>>

\* the collaborator calls made by the catch block of onExit: none
OnExitCatchCalls(p) == <<>>

\* the mutant passes true to onExit in the inner catch as well
ExitSuccessAlways(p) == TRUE

\* the success argument of onExit: !br.error at line 138, false at line 152
ExitSuccess(p) == br[p].outcome = "ok"


\* ---------------------------------------------------------- onExit (194-217)
\* the mutant guards each step on its own: after the error onExit goes on
\* with createBuildTag
OnExitThrowGoesOn(p, ev, e) ==
    /\ trace' = [trace EXCEPT ![p] = @ \o ev]
    /\ exitErr' = [exitErr EXCEPT ![p] = e]
    /\ Goto(p, "tag")
    /\ UNCHANGED result

\* an error thrown inside the try block of onExit by the calls ev, the last
\* of which threw e: the catch block logs it and onExit returns normally
OnExitThrow(p, ev, e) ==
    /\ trace' = [trace EXCEPT ![p] = (@ \o ev) \o OnExitCatchCalls(p)]
    /\ exitErr' = [exitErr EXCEPT ![p] = e]
    /\ Return(p, OnExitErrorSwallowed(p, e))

\* the first await of onExit: updateBuildStatus(runningBuild, "passed" or
\* "failed", ...).  On the failure branch nothing follows it; on the success
\* branch a throw skips createBuildTag and linkArtifact (one try block).
OnExitStatus(p) ==
    /\ pc[p] = "onExit"
    /\ UNCHANGED goalVars
    /\ \/ /\ ExitSuccess(p)
          /\ Call(p, StatusEv(p, ExitStatus(ExitSuccess(p))))
          /\ Goto(p, "tag")
          /\ UNCHANGED <<result, exitErr>>
       \/ /\ ~ExitSuccess(p)
          /\ Call(p, StatusEv(p, ExitStatus(ExitSuccess(p))))
          /\ Return(p, ExitResult(p))
          /\ UNCHANGED exitErr
       \/ OnExitThrow(p, << StatusEv(p, ExitStatus(ExitSuccess(p))) >>, StatusErr)
    /\ UNCHANGED <<store, store0, tagObjs, tagRefs, nbuilds,
                   allocated, repo, qres, buildNo, rb, br, version, err>>

\* the name of the tag of a build: `${version}+sdm.${buildNo}`
BuildTagName(v, no) == <<v, no>>

\* what follows createBuildTag in onExit: linkArtifact when the running
\* build has a deploymentUnitFile, else a warning and the end of onExit
AfterBuildTag(p) ==
    /\ IF rb[p].art
       THEN Goto(p, "link") /\ UNCHANGED result
       ELSE Return(p, ExitResult(p))
    /\ UNCHANGED exitErr

\* createBuildTag (253-269) up to its first await: the configuration value
\* sdm.build.tag is false (first disjunct), or it is true and readSdmVersion
\* gives no version, gives a version, or throws
CreateBuildTag(p) ==
    /\ pc[p] = "tag"
    /\ UNCHANGED goalVars
    /\ \/ /\ Call(p, Ev("createBuildTag", "none", FALSE, buildNo[p]))
          /\ AfterBuildTag(p)
          /\ UNCHANGED version
       \/ /\ trace' = [trace EXCEPT ![p] =
                         @ \o << Ev("createBuildTag", "none", FALSE, buildNo[p]),
                                 Ev("readSdmVersion", "none", FALSE, buildNo[p]) >>]
          /\ \/ /\ AfterBuildTag(p)
                /\ UNCHANGED version
             \/ /\ \E v \in Versions : version' = [version EXCEPT ![p] = v]
                /\ Goto(p, "createTag")
                /\ UNCHANGED <<result, exitErr>>
       \/ /\ OnExitThrow(p, << Ev("createBuildTag", "none", FALSE, buildNo[p]),
                               Ev("readSdmVersion", "none", FALSE, buildNo[p]) >>,
                         VersionErr)
          /\ UNCHANGED version
    /\ UNCHANGED <<store, store0, tagObjs, tagRefs, nbuilds,
                   allocated, repo, qres, buildNo, rb, br, err>>

\* push.sha: the commit of the push that triggered the build
PushSha(r) == IF r = "r1" THEN "sha1" ELSE "sha2"

\* the mutant takes the message for the target and the target for the message
TagWithFieldsSwapped(sha, message, v) ==
    [tag |-> v, message |-> sha, object |-> message, type |-> "commit"]

\* createTagForStatus (executeTag.ts 55-65): the tag it builds, without the
\* fixed tagger and the date
TagForStatus(sha, message, v) ==
    [tag |-> v, message |-> message, object |-> sha, type |-> "commit"]

\* the tag createBuildTag asks for (lines 262-266)
BuildTag(p) ==
    TagForStatus(PushSha(repo[p]), "Tag created by SDM",
                 BuildTagName(version[p], buildNo[p]))

\* createTagForStatus (executeTag.ts 50-69): await createTag(...)
CreateTag(p) ==
    /\ pc[p] = "createTag"
    /\ UNCHANGED goalVars
    /\ \/ /\ Call(p, Ev("createTag", version[p], FALSE, buildNo[p]))
          /\ tagObjs' = tagObjs \cup {BuildTag(p)}
          /\ Goto(p, "createRef")
          /\ UNCHANGED <<result, exitErr>>
       \/ /\ OnExitThrow(p, << Ev("createTag", version[p], FALSE, buildNo[p]) >>, TagErr)
          /\ UNCHANGED tagObjs
    /\ UNCHANGED <<store, store0, tagRefs, nbuilds,
                   allocated, repo, qres, buildNo, rb, br, version, err>>

\* createTagForStatus: await createTagReference(...); a reference of that
\* name that exists already is rejected
CreateTagReference(p) ==
    /\ pc[p] = "createRef"
    /\ UNCHANGED goalVars
    /\ \/ /\ BuildTagName(version[p], buildNo[p]) \notin tagRefs
          /\ Call(p, Ev("createTagReference", version[p], FALSE, buildNo[p]))
          /\ tagRefs' = tagRefs \cup {BuildTagName(version[p], buildNo[p])}
          /\ AfterBuildTag(p)
       \/ /\ OnExitThrow(p, << Ev("createTagReference", version[p], FALSE, buildNo[p]) >>, TagErr)
          /\ UNCHANGED tagRefs
    /\ UNCHANGED <<store, store0, tagObjs, nbuilds,
                   allocated, repo, qres, buildNo, rb, br, version, err>>

\* linkArtifact (272-275): artifactStore.storeFile(...)
StoreFile(p) ==
    /\ pc[p] = "link"
    /\ UNCHANGED goalVars
    /\ \/ /\ Call(p, Ev("storeFile", "none", FALSE, buildNo[p]))
          /\ Goto(p, "webhook")
          /\ UNCHANGED <<result, exitErr>>
       \/ OnExitThrow(p, << Ev("storeFile", "none", FALSE, buildNo[p]) >>, LinkErr)
    /\ UNCHANGED <<store, store0, tagObjs, tagRefs, nbuilds,
                   allocated, repo, qres, buildNo, rb, br, version, err>>

\* linkArtifact: .then(imageUrl => postLinkImageWebhook(...)); its boolean
\* answer is not looked at
PostLinkImageWebhook(p) ==
    /\ pc[p] = "webhook"
    /\ UNCHANGED goalVars
    /\ \/ /\ Call(p, Ev("postLinkImageWebhook", "none", FALSE, buildNo[p]))
          /\ Return(p, ExitResult(p))
          /\ UNCHANGED exitErr
       \/ OnExitThrow(p, << Ev("postLinkImageWebhook", "none", FALSE, buildNo[p]) >>, LinkErr)
    /\ UNCHANGED <<store, store0, tagObjs, tagRefs, nbuilds,
                   allocated, repo, qres, buildNo, rb, br, version, err>>

\* the outer catch of initiateBuild (160-169): the build failed before it
\* started; "failed" is reported with url undefined and failure(err) returned
StartFailed(p) ==
    /\ pc[p] = "startFailed"
    /\ UNCHANGED goalVars
    /\ Call(p, Ev("updateBuildStatus", "failed", FALSE, buildNo[p]))
    /\ \/ Return(p, Failure(err[p]))
       \/ Return(p, Escaped(StatusErr))
    /\ UNCHANGED <<store, store0, tagObjs, tagRefs, nbuilds,
                   allocated, repo, qres, buildNo, rb, br, version, err, exitErr>>

\* ------------------------------------------------------- specifications
Step(p) ==
    \/ AllocatorQuery(p)
    \/ AllocatorSend(p)
    \/ StartBuild(p)
    \/ OnStarted(p)
    \/ AwaitBuildResult(p)
    \/ OnExitStatus(p)
    \/ CreateBuildTag(p)
    \/ CreateTag(p)
    \/ CreateTagReference(p)
    \/ StoreFile(p)
    \/ PostLinkImageWebhook(p)
    \/ StartFailed(p)

\* invocations interleave at every await
StartConcurrent(p, r) ==
    /\ nbuilds < MaxBuilds
    /\ Start(p, r)

Next ==
    \/ \E p \in Procs, r \in Repos : StartConcurrent(p, r)
    \/ \E p \in Procs : Step(p)

Spec == Init /\ [][Next]_vars

\* the dispatcher invokes initiateBuild only when no invocation is running
StartSequential(p, r) ==
    /\ nbuilds < MaxSeqBuilds
    /\ \A q \in Procs : pc[q] \in {"idle", "done"}
    /\ Start(p, r)

NextSeq ==
    \/ \E p \in Procs, r \in Repos : StartSequential(p, r)
    \/ \E p \in Procs : Step(p)

SpecSeq == Init /\ [][NextSeq]_vars


\* ------------------------------------------------- reading an invocation
Done(p) == pc[p] = "done"

\* positions of the calls of collaborator op in the invocation of p
Calls(p, op) == { i \in DOMAIN trace[p] : trace[p][i].op = op }

\* positions of the status updates with state st
StatusCalls(p, st) ==
    { i \in DOMAIN trace[p] :
        trace[p][i].op = "updateBuildStatus" /\ trace[p][i].arg = st }

\* the states of the status updates of the invocation, in order
IsStatusUpdate(e) == e.op = "updateBuildStatus"
StatusSeq(p) ==
    LET ups == SelectSeq(trace[p], IsStatusUpdate)
    IN  [i \in DOMAIN ups |-> ups[i].arg]

TagCalls(p) ==
    Calls(p, "createBuildTag") \cup Calls(p, "readSdmVersion")
        \cup Calls(p, "createTag") \cup Calls(p, "createTagReference")

LinkCalls(p) == Calls(p, "storeFile") \cup Calls(p, "postLinkImageWebhook")

\* the repository had at most one record at the start, so that every
\* persisted record replaces the single record of the repository
SingleRecord(r) == Len(store0[r]) <= 1

NoDuplicates(seq) ==
    \A i, j \in DOMAIN seq : i # j => seq[i] # seq[j]

\* ---------------------------------------------------------------- claims

\* C1 (SpecSeq): when the allocator calls for a repository run one after the
\* other and the repository has at most one record, no two of them return
\* the same identifier, and for a repository without a record at the start
\* the n-th returned identifier is the decimal string of n.
C1_SequentialAllocation ==
    \A r \in Repos :
        SingleRecord(r) =>
            /\ NoDuplicates(allocated[r])
            /\ store0[r] = <<>> =>
                 \A n \in DOMAIN allocated[r] :
                     /\ StrToNum(allocated[r][n]) = n
                     /\ allocated[r][n] = NumToStr(n)

\* C1 witness: a repository never seen before has had MaxSeqBuilds
\* allocations, one after the other.
C1_Witness ==
    \E r \in Repos : store0[r] = <<>> /\ Len(allocated[r]) = MaxSeqBuilds

\* C2 (Spec): an identifier is never handed to two invocations for the same
\* repository, however the allocator steps of the invocations interleave.
C2_NoReuseWhenConcurrent ==
    \A r \in Repos : SingleRecord(r) => NoDuplicates(allocated[r])

\* C3 (Spec): every finished invocation of initiateBuild has produced a
\* handler result; no error of a collaborator escapes it.
C3_ExactlyOneResult ==
    \A p \in Procs : Done(p) => result[p].code \in {0, 1}

\* C4 (Spec): when startBuild throws, the invocation issues exactly one status
\* update, "failed" without URL, never awaits the build result, creates no
\* tag, calls startBuild once and returns failure(err).
C4_StartFailure ==
    \A p \in Procs :
        (Done(p) /\ err[p] = StartErr) =>
            /\ Len(StatusSeq(p)) = 1
            /\ \A i \in Calls(p, "updateBuildStatus") :
                   trace[p][i].arg = "failed" /\ ~trace[p][i].url
            /\ Calls(p, "buildResult") = {}
            /\ TagCalls(p) = {}
            /\ Cardinality(Calls(p, "startBuild")) = 1
            /\ result[p] = Failure(StartErr)

\* C5 (Spec): an error of a status update never becomes the outcome of the
\* invocation: once the identifier is allocated the invocation returns a
\* result, success exactly when the backend started and its eventual result
\* carries no error, and never the failure of a status update.
C5_StatusBestEffort ==
    \A p \in Procs :
        (Done(p) /\ buildNo[p] # <<>>) =>
            /\ result[p].code \in {0, 1}
            /\ result[p].message # StatusErr
            /\ (result[p].code = 0) <=> (rb[p].started /\ br[p].outcome = "ok")

\* C6 (Spec): after a build result without error, an error thrown by the tag
\* step or by artifact linking is swallowed: the invocation returns Success
\* and issues no "failed" status update.
C6_TagAndLinkErrorsSwallowed ==
    \A p \in Procs :
        (Done(p) /\ br[p].outcome = "ok"
                 /\ exitErr[p] \in {VersionErr, TagErr, LinkErr}) =>
            /\ result[p] = Success
            /\ StatusCalls(p, "failed") = {}

\* C6 witness: a finished invocation of a successful build whose image-link
\* webhook threw.
C6_Witness ==
    \E p \in Procs :
        /\ Done(p) /\ br[p].outcome = "ok" /\ exitErr[p] = LinkErr
        /\ Calls(p, "postLinkImageWebhook") # {}

\* C7 (Spec): the status updates of an invocation are, in order, at most one
\* "started" and then at most one terminal status ("passed" or "failed");
\* nothing follows a terminal status.
C7_StatusStateMachine ==
    \A p \in Procs :
        StatusSeq(p) \in { <<>>, <<"started">>, <<"failed">>,
                           <<"started", "passed">>, <<"started", "failed">> }

\* C7 witness: an invocation whose "passed" update threw, and which is over.
C7_Witness ==
    \E p \in Procs :
        /\ Done(p) /\ exitErr[p] = StatusErr
        /\ StatusSeq(p) = <<"started", "passed">>

\* C8 (Spec): when the awaited build result carries an application error,
\* "failed" is reported once, "passed" never, neither the tag step nor the
\* artifact link is attempted, and the result is code 1 with the message of
\* the backend.
C8_ApplicationError ==
    \A p \in Procs :
        (Done(p) /\ br[p].outcome = "error") =>
            /\ StatusSeq(p) = <<"started", "failed">>
            /\ TagCalls(p) = {} /\ LinkCalls(p) = {}
            /\ result[p] = [code |-> 1, message |-> br[p].message]
            /\ br[p].message \in BackendMessages

\* C8 witness: a finished invocation whose build result carried an error.
C8_Witness ==
    \E p \in Procs : Done(p) /\ br[p].outcome = "error" /\ result[p].code = 1

\* C9 (Spec): when awaiting the build result throws, "failed" is reported
\* exactly once, no tag is created, no artifact is linked, and the result is
\* failure(err) of the exception.
C9_AwaitThrows ==
    \A p \in Procs :
        (Done(p) /\ br[p].outcome = "throw") =>
            /\ Cardinality(StatusCalls(p, "failed")) = 1
            /\ StatusCalls(p, "passed") = {}
            /\ TagCalls(p) = {} /\ LinkCalls(p) = {}
            /\ result[p] = Failure(RunErr)

\* C9 witness: a finished invocation whose build result was rejected.
C9_Witness ==
    \E p \in Procs : Done(p) /\ br[p].outcome = "throw" /\ err[p] = RunErr

\* C10 (Spec): a finished invocation whose build result carries no error has
\* reported "passed" and then run the tag step; without a deployment
\* artifact it has called neither the artifact store nor the webhook, and
\* with one the artifact store is called only after the tag step.
C10_PassedThenTagThenLink ==
    \A p \in Procs :
        (Done(p) /\ br[p].outcome = "ok") =>
            /\ StatusCalls(p, "passed") # {}
            /\ Calls(p, "createBuildTag") # {}
            /\ \A i \in StatusCalls(p, "passed"), j \in TagCalls(p) : i < j
            /\ ~rb[p].art => LinkCalls(p) = {}
            /\ \A j \in TagCalls(p), k \in LinkCalls(p) : j < k


\* =================================================== executeDockerBuild
\* (src/unnamed/part_001, lines 126-214)
\* A string is the sequence of its pieces of text; a registry is written
\* character by character, since the login arguments depend on its
\* characters.

\* Number of preparations given to executeDockerBuild.
MaxPreps == 2

Letters ==
    {"a", "b", "c", "d", "e", "f", "g", "h", "i", "j", "k", "l", "m",
     "n", "o", "p", "q", "r", "s", "t", "u", "v", "w", "x", "y", "z",
     "A", "B", "C", "D", "E", "F", "G", "H", "I", "J", "K", "L", "M",
     "N", "O", "P", "Q", "R", "S", "T", "U", "V", "W", "X", "Y", "Z"}
Digits == {"0", "1", "2", "3", "4", "5", "6", "7", "8", "9"}

DockerIo == <<"d", "o", "c", "k", "e", "r", ".", "i", "o">>
MyRegistry ==
    <<"m", "y", "-", "r", "e", "g", "i", "s", "t", "r", "y", ".",
      "e", "x", "a", "m", "p", "l", "e", ".", "c", "o", "m", ":",
      "5", "0", "0", "0">>
DockerHubUser == <<"a", "c", "m", "e", "2", "0", "1", "8">>
Underscored == <<"m", "y", "_", "o", "r", "g">>

\* the values of options.registry
Registries == {DockerIo, MyRegistry, DockerHubUser, Underscored, <<>>}

\* the exit codes of a preparation or of a docker command
ExitCodes == {0, 1, 125}

DockerUser == <<"user">>
DockerPassword == <<"password">>
ProjectName == <<"my-project">>

\* the mutant tests the first character only: /^[^A-Za-z0-9]/
FirstCharNotAlphanumeric(registry) ==
    registry # <<>> /\ registry[1] \notin (Letters \cup Digits)

\* the mutant lets the dot pass: /[^A-Za-z0-9.]/
NotAlphanumericOrDot(registry) ==
    \E i \in DOMAIN registry : registry[i] \notin (Letters \cup Digits \cup {"."})

\* /[^A-Za-z0-9]/.test(options.registry)
HasNonAlphanumeric(registry) ==
    \E i \in DOMAIN registry : registry[i] \notin (Letters \cup Digits)

\* loginArgs (lines 154-157)
LoginArgs(user, password, registry) ==
    <<<<"login">>, <<"--username">>, user, <<"--password">>, password>>
        \o (IF HasNonAlphanumeric(registry) THEN <<registry>> ELSE <<>>)

\* `${imageName.registry}/${imageName.name}:${imageName.version}`
ImageOf(registry, name, v) == registry \o <<"/">> \o name \o <<":">> \o v

\* the image of the invocation: DefaultDockerImageNameCreator gives the
\* registry of the options, the name of the project, the persisted version
DockerImage == ImageOf(docker.registry, ProjectName, <<"1.0.0-2018">>)

\* await (options.dockerfileFinder ? options.dockerfileFinder(p) : "Dockerfile")
DockerfilePath == IF docker.finder THEN <<"docker/Dockerfile">> ELSE <<"Dockerfile">>

\* one step of the pipeline: its name, its arguments and the exit code it
\* gave (-1 when it threw, 0 for a step without exit code)
DockerEv(op, args, code) == [op |-> op, args |-> args, code |-> code]

\* the result of a preparation or of spawnAndWatch: the exit code, and the
\* message of the command that gave it
StepResult(op, code) == [code |-> code, message |-> op]

\* the mutant goes on after a failed step
NeverStops(code) == FALSE

\* if (pResult.code !== 0) / if (result.code !== 0)
StopsPipeline(code) == code # 0

\* the mutant returns the result of the push whatever the webhook answered
LinkResultIgnoresAnswer(linked, pushResult) == pushResult

\* lines 202-211: the result after postLinkImageWebhook answered
LinkResult(linked, pushResult) ==
    IF linked THEN pushResult ELSE [code |-> 1, message |-> "Image link failed"]

DockerDo(ev) == Append(docker.trace, ev)

DockerOthersUnchanged ==
    UNCHANGED <<buildVars, tagObjs, tagRefs, versioner, fingerprint, tagging,
               progressLog, deploy>>

\* the goal is invoked; projectLoader.doWithProject gives the project to the
\* body, or throws
DockerStart ==
    /\ docker.pc = "start"
    /\ \/ docker' = [docker EXCEPT !.pc = "prep",
                        !.trace = DockerDo(DockerEv("doWithProject", <<>>, 0))]
       \/ docker' = [docker EXCEPT !.pc = "done",
                        !.trace = DockerDo(DockerEv("doWithProject", <<>>, -1)),
                        !.result = Escaped("projectErr")]
    /\ DockerOthersUnchanged

\* for (const preparation of preparations): await preparation(p, goalInvocation)
DockerPreparation ==
    /\ docker.pc = "prep"
    /\ docker.i < docker.preps
    /\ \/ \E c \in ExitCodes :
            docker' = [docker EXCEPT
                !.trace = DockerDo(DockerEv("preparation", <<>>, c)),
                !.i = @ + 1,
                !.pc = IF StopsPipeline(c) THEN "done" ELSE "prep",
                !.result = IF StopsPipeline(c) THEN StepResult("preparation", c) ELSE @]
       \/ docker' = [docker EXCEPT
                !.trace = DockerDo(DockerEv("preparation", <<>>, -1)),
                !.pc = "done", !.result = Escaped("preparationErr")]
    /\ DockerOthersUnchanged

\* await imageNameCreator(p, sdmGoal, options, context), after the last
\* preparation
DockerImageName ==
    /\ docker.pc = "prep"
    /\ docker.i = docker.preps
    /\ \/ docker' = [docker EXCEPT !.pc = "finder",
                        !.trace = DockerDo(DockerEv("imageNameCreator", <<>>, 0))]
       \/ docker' = [docker EXCEPT !.pc = "done",
                        !.trace = DockerDo(DockerEv("imageNameCreator", <<>>, -1)),
                        !.result = Escaped("imageNameErr")]
    /\ DockerOthersUnchanged

\* the dockerfile path: options.dockerfileFinder(p) when given (it may
\* throw), else "Dockerfile"
DockerfileFinder ==
    /\ docker.pc = "finder"
    /\ \/ docker' = [docker EXCEPT !.pc = "login",
                        !.trace = IF docker.finder
                                  THEN DockerDo(DockerEv("dockerfileFinder", <<>>, 0))
                                  ELSE @]
       \/ /\ docker.finder
          /\ docker' = [docker EXCEPT !.pc = "done",
                           !.trace = DockerDo(DockerEv("dockerfileFinder", <<>>, -1)),
                           !.result = Escaped("finderErr")]
    /\ DockerOthersUnchanged

\* result = await spawnAndWatch({ command: "docker", args }, ...) and the
\* test of result.code that follows it
DockerCommand(at, op, args, next) ==
    /\ docker.pc = at
    /\ \/ \E c \in ExitCodes :
            docker' = [docker EXCEPT
                !.trace = DockerDo(DockerEv(op, args, c)),
                !.pc = IF StopsPipeline(c) THEN "done" ELSE next,
                !.result = IF StopsPipeline(c) THEN StepResult(op, c) ELSE @]
       \/ docker' = [docker EXCEPT
                !.trace = DockerDo(DockerEv(op, args, -1)),
                !.pc = "done", !.result = Escaped("spawnErr")]
    /\ DockerOthersUnchanged

\* 1. run docker login
DockerLogin ==
    /\ docker.pc = "login"
    /\ DockerCommand("login", "login",
                  LoginArgs(DockerUser, DockerPassword, docker.registry), "build")

\* 2. run docker build
DockerBuild ==
    /\ docker.pc = "build"
    /\ DockerCommand("build", "build",
                  <<<<"build">>, <<".">>, <<"-f">>, DockerfilePath, <<"-t">>, DockerImage>>,
                  "push")

\* 3. run docker push
DockerPush ==
    /\ docker.pc = "push"
    /\ DockerCommand("push", "push", <<<<"push">>, DockerImage>>, "link")

\* 4. create image link: await postLinkImageWebhook(...) answers true or
\* false, or throws
DockerLink ==
    /\ docker.pc = "link"
    /\ \/ \E linked \in BOOLEAN :
            docker' = [docker EXCEPT
                !.trace = DockerDo(DockerEv("postLinkImageWebhook", <<DockerImage>>,
                                            IF linked THEN 0 ELSE 1)),
                !.pc = "done",
                !.result = LinkResult(linked, StepResult("push", 0))]
       \/ docker' = [docker EXCEPT
                !.trace = DockerDo(DockerEv("postLinkImageWebhook", <<DockerImage>>, -1)),
                !.pc = "done", !.result = Escaped("linkErr")]
    /\ DockerOthersUnchanged

\* initiateBuild is not invoked: no record, no tag
BuildIdle ==
    /\ store = [r \in Repos |-> <<>>]
    /\ store0 = store
    /\ tagObjs = {}
    /\ tagRefs = {}
    /\ nbuilds = 0
    /\ allocated = [r \in Repos |-> <<>>]
    /\ pc = [p \in Procs |-> "idle"]
    /\ repo = [p \in Procs |-> "r1"]
    /\ qres = [p \in Procs |-> <<>>]
    /\ buildNo = [p \in Procs |-> <<>>]
    /\ rb = [p \in Procs |-> NoBuild]
    /\ br = [p \in Procs |-> NoBr]
    /\ version = [p \in Procs |-> "none"]
    /\ err = [p \in Procs |-> NoErr]
    /\ exitErr = [p \in Procs |-> NoErr]
    /\ trace = [p \in Procs |-> <<>>]
    /\ result = [p \in Procs |-> NoResult]

\* the goal is invoked once, with any registry, any number of preparations,
\* with or without a dockerfileFinder
InitDocker ==
    /\ BuildIdle
    /\ \E reg \in Registries, n \in 0..MaxPreps, f \in BOOLEAN :
          docker = [DockerIdle EXCEPT !.pc = "start", !.registry = reg,
                                      !.preps = n, !.finder = f]
    /\ versioner = VersionerIdle
    /\ fingerprint = FingerprintIdle
    /\ tagging = TaggingIdle
    /\ progressLog = ProgressLogIdle
    /\ deploy = DeployIdle

NextDocker ==
    \/ DockerStart
    \/ DockerPreparation
    \/ DockerImageName
    \/ DockerfileFinder
    \/ DockerLogin
    \/ DockerBuild
    \/ DockerPush
    \/ DockerLink

SpecDocker == InitDocker /\ [][NextDocker]_vars


\* ---------------------------------------------- reading the docker goal

DockerCalls(op) == { i \in DOMAIN docker.trace : docker.trace[i].op = op }

\* the place of a step in the pipeline
DockerRank(op) ==
    CASE op = "doWithProject" -> 0
      [] op = "preparation" -> 1
      [] op = "imageNameCreator" -> 2
      [] op = "dockerfileFinder" -> 3
      [] op = "login" -> 4
      [] op = "build" -> 5
      [] op = "push" -> 6
      [] op = "postLinkImageWebhook" -> 7

\* C11 (SpecDocker): the steps of executeDockerBuild run in the order
\* preparations, image name, login, build, push, image link, each at most
\* once (but the preparations) and none before the steps it follows; a
\* preparation, login, build or push that gives a non-zero code is the last
\* step, and its result is the result of the goal.
C11_PipelineOrderAndShortCircuit ==
    /\ \A i, j \in DOMAIN docker.trace :
          i < j =>
             \/ DockerRank(docker.trace[i].op) < DockerRank(docker.trace[j].op)
             \/ docker.trace[i].op = "preparation" /\ docker.trace[j].op = "preparation"
    /\ DockerCalls("imageNameCreator") # {} =>
          Cardinality(DockerCalls("preparation")) = docker.preps
    /\ DockerCalls("login") # {} => DockerCalls("imageNameCreator") # {}
    /\ DockerCalls("build") # {} => DockerCalls("login") # {}
    /\ DockerCalls("push") # {} => DockerCalls("build") # {}
    /\ DockerCalls("postLinkImageWebhook") # {} => DockerCalls("push") # {}
    /\ \A i \in DOMAIN docker.trace :
          (/\ docker.trace[i].op \in {"preparation", "login", "build", "push"}
           /\ docker.trace[i].code > 0) =>
             /\ i = Len(docker.trace)
             /\ docker.pc = "done"
             /\ docker.result = [code |-> docker.trace[i].code,
                                 message |-> docker.trace[i].op]

\* C11 witness: login gave 0 and build gave 125, after two preparations.
C11_Witness ==
    /\ docker.pc = "done"
    /\ docker.result.code = 125
    /\ Cardinality(DockerCalls("preparation")) = 2
    /\ \E i \in DockerCalls("build") : docker.trace[i].code = 125

\* C12 (SpecDocker): when the image link was asked for, login, build and push
\* all gave 0; an answer false gives code 1 and "Image link failed", an
\* answer true gives code 0.
C12_ImageLinkAnswer ==
    \A i \in DockerCalls("postLinkImageWebhook") :
        docker.trace[i].code \in {0, 1} =>
            /\ \A j \in DOMAIN docker.trace :
                  docker.trace[j].op \in {"login", "build", "push"} =>
                      docker.trace[j].code = 0
            /\ {"login", "build", "push"}
                  \subseteq {docker.trace[j].op : j \in DOMAIN docker.trace}
            /\ docker.pc = "done"
            /\ docker.trace[i].code = 1 =>
                  docker.result = [code |-> 1, message |-> "Image link failed"]
            /\ docker.trace[i].code = 0 => docker.result.code = 0

\* C12 witness: the pipeline is over and the webhook answered false.
C12_Witness ==
    /\ docker.pc = "done"
    /\ \E i \in DockerCalls("postLinkImageWebhook") : docker.trace[i].code = 1

\* the arguments of docker login without the registry
LoginArgsWithoutRegistry ==
    <<<<"login">>, <<"--username">>, DockerUser, <<"--password">>, DockerPassword>>

\* C13, as claimed (SpecDocker): with registry "docker.io" the login command
\* omits the registry, with "my-registry.example.com:5000" the registry is
\* its last argument.
C13_DockerIoOmitted ==
    \A i \in DockerCalls("login") :
        /\ docker.registry = DockerIo =>
              docker.trace[i].args = LoginArgsWithoutRegistry
        /\ docker.registry = MyRegistry =>
              docker.trace[i].args[Len(docker.trace[i].args)] = MyRegistry

\* C13, amended (SpecDocker): with registry "docker.io", which contains the
\* character ".", the login command has the registry as its last, sixth
\* argument, as it has with "my-registry.example.com:5000"; with a registry
\* of letters and digits only ("acme2018") the registry is omitted.
C13_DockerIoIncluded ==
    \A i \in DockerCalls("login") :
        /\ docker.registry \in {DockerIo, MyRegistry} =>
              /\ Len(docker.trace[i].args) = 6
              /\ docker.trace[i].args[6] = docker.registry
              /\ SubSeq(docker.trace[i].args, 1, 5) = LoginArgsWithoutRegistry
        /\ docker.registry = DockerHubUser =>
              docker.trace[i].args = LoginArgsWithoutRegistry

\* C13 witness: docker login has run with registry "docker.io".
C13_Witness ==
    docker.registry = DockerIo /\ DockerCalls("login") # {}

\* C14 (SpecDocker): the arguments of docker login are login, --username,
\* user, --password, password, followed by the registry exactly when some
\* character of the registry is not a letter or a digit.
C14_LoginArgs ==
    \A i \in DockerCalls("login") :
        LET onlyAlphanumeric ==
                \A k \in DOMAIN docker.registry :
                    docker.registry[k] \in Letters \cup Digits
        IN  /\ onlyAlphanumeric => docker.trace[i].args = LoginArgsWithoutRegistry
            /\ ~onlyAlphanumeric =>
                  docker.trace[i].args = Append(LoginArgsWithoutRegistry, docker.registry)

\* C14 witness: docker login has run with the registry "my_org", whose only
\* character that is not a letter or a digit is in the middle.
C14_Witness ==
    /\ docker.registry = Underscored
    /\ \E i \in DockerCalls("login") : Len(docker.trace[i].args) = 6


\* ================================================= NodeProjectVersioner
\* (src/src/internal/delivery/build/local/npm/nodeProjectVersioner.ts, 21-41)
\* A branch name is the sequence of its pieces, every "/" and "." a piece.

Main == <<"main">>
FeatureX == <<"feature", "/", "x">>
ReleaseSlash == <<"release", "/", "1">>
ReleaseDot == <<"release", ".", "1">>

\* the values of sdmGoal.branch and of sdmGoal.push.repo.defaultBranch
Branches == {Main, FeatureX, ReleaseSlash, ReleaseDot}
DefaultBranches == {Main, ReleaseSlash, ReleaseDot}

\* sdmGoal.branch.split("/").join(".")
ReplaceSlashes(b) == [i \in DOMAIN b |-> IF b[i] = "/" THEN "." ELSE b[i]]

\* branch !== sdmGoal.push.repo.defaultBranch ? `${branch}.` : "", where
\* branch is the branch with its slashes replaced
BranchSuffix(branch, defaultBranch) ==
    IF ReplaceSlashes(branch) # defaultBranch
    THEN ReplaceSlashes(branch) \o <<".">>
    ELSE <<>>

\* `${pj.version}-${branchSuffix}${df(new Date(), "yyyymmddHHMMss")}`
NodeVersion(declared, branch, defaultBranch, timestamp) ==
    declared \o <<"-">> \o BranchSuffix(branch, defaultBranch) \o timestamp

VersionerOthersUnchanged ==
    UNCHANGED <<buildVars, tagObjs, tagRefs, docker, fingerprint, tagging,
               progressLog, deploy>>

\* p.getFile("package.json"), getContent, JSON.parse, and the version string
\* computed from them; reading or parsing may throw
VersionerCompute ==
    /\ versioner.pc = "start"
    /\ \/ versioner' = [versioner EXCEPT
              !.pc = "spawn",
              !.version = NodeVersion(versioner.declared, versioner.branch,
                                      versioner.defaultBranch, versioner.timestamp)]
       \/ versioner' = [versioner EXCEPT !.pc = "rejected"]
    /\ VersionerOthersUnchanged

\* the mutant rejects when npm exits with another code than 0
VersionerOutcomeChecked(code) == IF code = 0 THEN "done" ELSE "rejected"

\* lines 28-40: the result of spawnAndWatch is not looked at and the
\* versioner returns
VersionerOutcome(code) == "done"

\* await spawnAndWatch({ command: "npm", args: ["--no-git-tag-version",
\* "version", version] }, ...) and return version: the exit code is not
\* looked at; spawnAndWatch may throw
VersionerSpawn ==
    /\ versioner.pc = "spawn"
    /\ \/ \E c \in ExitCodes :
              versioner' = [versioner EXCEPT
                  !.pc = VersionerOutcome(c),
                  !.exit = c,
                  !.packageJson = IF c = 0 THEN versioner.version ELSE @,
                  !.result = IF VersionerOutcome(c) = "done"
                             THEN versioner.version ELSE <<>>]
       \/ versioner' = [versioner EXCEPT !.pc = "rejected"]
    /\ VersionerOthersUnchanged

\* the versioner is invoked once, for a push to any branch of a repository
\* with any default branch; pj.version is one of two versions and
\* df(new Date(), "yyyymmddHHMMss") gives fourteen digits
InitVersioner ==
    /\ BuildIdle
    /\ docker = DockerIdle
    /\ \E b \in Branches, db \in DefaultBranches,
          v \in {<<"1.2.0">>, <<"0.1.0">>}, t \in {<<"20180601120000">>} :
          versioner = [VersionerIdle EXCEPT !.pc = "start", !.branch = b,
                          !.defaultBranch = db, !.declared = v, !.timestamp = t,
                          !.packageJson = v]
    /\ fingerprint = FingerprintIdle
    /\ tagging = TaggingIdle
    /\ progressLog = ProgressLogIdle
    /\ deploy = DeployIdle

NextVersioner ==
    \/ VersionerCompute
    \/ VersionerSpawn

SpecVersioner == InitVersioner /\ [][NextVersioner]_vars

\* C15 (SpecVersioner): for a push on the default branch the version is
\* <declared version>-<timestamp>, without branch segment, whatever the name
\* of the default branch; for a push on another branch B it is
\* <declared version>-<B with "/" replaced by ".">.<timestamp>.
C15_BranchSuffix ==
    versioner.pc = "done" =>
        /\ versioner.branch = versioner.defaultBranch =>
              versioner.result = versioner.declared \o <<"-">> \o versioner.timestamp
        /\ versioner.branch # versioner.defaultBranch =>
              versioner.result =
                  versioner.declared \o <<"-">> \o ReplaceSlashes(versioner.branch)
                      \o <<".">> \o versioner.timestamp


\* ================================================ executeFingerprinting
\* (src/src/internal/delivery/code/fingerprint/executeFingerprinting.ts, 37-64)

\* Number of registered fingerprinters, and of listeners.
MaxFingerprinters == 2
MaxListeners == 2

\* the mutant keeps every fingerprinter
AllFingerprinters(applicable) == [i \in DOMAIN applicable |-> i]

\* relevantCodeActions(fingerprinters, cri): the fingerprinters whose push
\* test matches, in the order of registration
RelevantFingerprinters(applicable) ==
    SelectSeq([i \in DOMAIN applicable |-> i], LAMBDA i : applicable[i])

\* the mutant goes on with zero fingerprinters
NeverShortCircuits(applicable) == FALSE

\* if (fingerprinters.length === 0)
NoFingerprinters(applicable) == Len(applicable) = 0

\* the (listener, fingerprint) pairs in the order in which
\* listeners.map(l => fingerprints.map(fingerprint => l(...))) calls them
NotificationPairs(listeners, fingerprints) ==
    [k \in 1..(listeners * Len(fingerprints)) |->
        [l |-> ((k - 1) \div Len(fingerprints)) + 1,
         f |-> fingerprints[((k - 1) % Len(fingerprints)) + 1]]]

FingerprintOthersUnchanged ==
    UNCHANGED <<buildVars, tagObjs, tagRefs, docker, versioner, tagging,
               progressLog, deploy>>

\* the body given to doWithProject rejects with e: the project is released
\* and the goal rejects
FingerprintRejects(fp, e) ==
    [fp EXCEPT !.pc = "done", !.project = "released", !.result = Escaped(e)]

\* lines 42-44: with no fingerprinter the goal returns Success at once
FingerprintStart ==
    /\ fingerprint.pc = "start"
    /\ fingerprint' =
          IF NoFingerprinters(fingerprint.applicable)
          THEN [fingerprint EXCEPT !.pc = "done", !.result = Success]
          ELSE [fingerprint EXCEPT !.pc = "project"]
    /\ FingerprintOthersUnchanged

\* projectLoader.doWithProject({credentials, id, readOnly: true}, ...)
FingerprintProject ==
    /\ fingerprint.pc = "project"
    /\ \/ fingerprint' = [fingerprint EXCEPT !.pc = "relevant", !.project = "held"]
       \/ fingerprint' = [fingerprint EXCEPT !.pc = "done",
                                             !.result = Escaped("projectErr")]
    /\ FingerprintOthersUnchanged

\* createPushImpactListenerInvocation and relevantCodeActions (lines 48-49)
FingerprintRelevant ==
    /\ fingerprint.pc = "relevant"
    /\ \/ fingerprint' = [fingerprint EXCEPT
              !.pc = "compute",
              !.relevant = RelevantFingerprinters(fingerprint.applicable)]
       \/ fingerprint' = FingerprintRejects(fingerprint, "pushTestErr")
    /\ FingerprintOthersUnchanged

\* computeFingerprints(cri, relevantFingerprinters.map(fp => fp.action)):
\* the action of the next relevant fingerprinter gives its fingerprint, or
\* throws
FingerprintCompute ==
    /\ fingerprint.pc = "compute"
    /\ Len(fingerprint.computed) < Len(fingerprint.relevant)
    /\ LET a == fingerprint.relevant[Len(fingerprint.computed) + 1]
       IN  \/ fingerprint' = [fingerprint EXCEPT
                  !.computed = Append(@, a),
                  !.fingerprints = Append(@, a)]
           \/ fingerprint' = FingerprintRejects(
                  [fingerprint EXCEPT !.computed = Append(@, a)], "fingerprinterErr")
    /\ FingerprintOthersUnchanged

\* lines 53-60, the nested map: the next (listener, fingerprint) pair is
\* called; the listener returns a promise, or throws before returning one,
\* which ends both maps
FingerprintNotify ==
    /\ fingerprint.pc = "compute"
    /\ Len(fingerprint.computed) = Len(fingerprint.relevant)
    /\ LET pairs == NotificationPairs(fingerprint.listeners, fingerprint.fingerprints)
           k == Len(fingerprint.calls) + 1
       IN  /\ k <= Len(pairs)
           /\ \/ fingerprint' = [fingerprint EXCEPT
                    !.calls = Append(@, [l |-> pairs[k].l, f |-> pairs[k].f,
                                         state |-> "pending", during |-> "none"])]
              \/ fingerprint' = FingerprintRejects(
                    [fingerprint EXCEPT
                        !.calls = Append(@, [l |-> pairs[k].l, f |-> pairs[k].f,
                                             state |-> "thrown", during |-> "held"])],
                    "listenerErr")
    /\ FingerprintOthersUnchanged

\* every pair was called
AllNotified(fp) ==
    /\ fp.pc = "compute"
    /\ Len(fp.computed) = Len(fp.relevant)
    /\ Len(fp.calls) = fp.listeners * Len(fp.fingerprints)

\* the promise of a listener call settles, once the maps are over: resolved,
\* or rejected, which rejects Promise.all while the goal awaits it
FingerprintSettle ==
    /\ AllNotified(fingerprint) \/ fingerprint.pc = "done"
    /\ \E k \in DOMAIN fingerprint.calls :
          /\ fingerprint.calls[k].state = "pending"
          /\ \/ fingerprint' = [fingerprint EXCEPT
                    !.calls[k].state = "resolved",
                    !.calls[k].during = fingerprint.project]
             \/ fingerprint' =
                    LET fp == [fingerprint EXCEPT
                                  !.calls[k].state = "rejected",
                                  !.calls[k].during = fingerprint.project]
                    IN  IF fingerprint.pc = "done" THEN fp
                        ELSE FingerprintRejects(fp, "listenerErr")
    /\ FingerprintOthersUnchanged

\* await Promise.all(...) resolves when every call has resolved; the body
\* ends, the project is released and the goal returns Success
FingerprintFinish ==
    /\ AllNotified(fingerprint)
    /\ \A k \in DOMAIN fingerprint.calls : fingerprint.calls[k].state = "resolved"
    /\ fingerprint' = [fingerprint EXCEPT !.pc = "done", !.project = "released",
                                           !.result = Success]
    /\ FingerprintOthersUnchanged

\* the goal is invoked once, with any registrations (for each fingerprinter,
\* whether its push test matches the push) and any number of listeners
InitFingerprint ==
    /\ BuildIdle
    /\ docker = DockerIdle
    /\ versioner = VersionerIdle
    /\ \E a \in UNION { [1..k -> BOOLEAN] : k \in 0..MaxFingerprinters },
          n \in 0..MaxListeners :
          fingerprint = [FingerprintIdle EXCEPT !.pc = "start",
                            !.applicable = a, !.listeners = n]
    /\ tagging = TaggingIdle
    /\ progressLog = ProgressLogIdle
    /\ deploy = DeployIdle

NextFingerprint ==
    \/ FingerprintStart
    \/ FingerprintProject
    \/ FingerprintRelevant
    \/ FingerprintCompute
    \/ FingerprintNotify
    \/ FingerprintSettle
    \/ FingerprintFinish

SpecFingerprint == InitFingerprint /\ [][NextFingerprint]_vars


\* ---- readers of a fingerprinting run

\* the calls made for listener l with fingerprint f
ListenerCalls(l, f) ==
    { k \in DOMAIN fingerprint.calls :
        fingerprint.calls[k].l = l /\ fingerprint.calls[k].f = f }

\* the fingerprinters whose action ran
Computed == { fingerprint.computed[k] : k \in DOMAIN fingerprint.computed }

Applicable == { i \in DOMAIN fingerprint.applicable : fingerprint.applicable[i] }

\* C16: with zero registered fingerprinters the goal never acquires the
\* project, runs no fingerprinter and calls no listener, and its result is
\* Success.
C16_NoFingerprinters ==
    Len(fingerprint.applicable) = 0 =>
        /\ fingerprint.project = "none"
        /\ fingerprint.pc \in {"start", "done"}
        /\ fingerprint.computed = <<>>
        /\ fingerprint.calls = <<>>
        /\ fingerprint.pc = "done" => fingerprint.result = Success

C16_Witness ==
    /\ Len(fingerprint.applicable) = 0
    /\ fingerprint.listeners = MaxListeners
    /\ fingerprint.pc = "done"
    /\ fingerprint.result = Success

\* C17: when the goal has ended and a listener call has failed (rejected or
\* thrown), every (listener, fingerprint) pair has been called all the same.
C17_FailureDoesNotSuppress ==
    (/\ fingerprint.pc = "done"
     /\ \E k \in DOMAIN fingerprint.calls :
           fingerprint.calls[k].state \in {"rejected", "thrown"}) =>
        \A l \in 1..fingerprint.listeners :
            \A k \in DOMAIN fingerprint.fingerprints :
                ListenerCalls(l, fingerprint.fingerprints[k]) # {}

\* C18: only applicable fingerprinters are run, each at most once, and all
\* of them before the first listener is called; a run that returns Success
\* with fingerprinters registered has called every listener exactly once with
\* the fingerprint of every applicable fingerprinter, and every call resolved
\* while the project was held.
C18_CrossProduct ==
    /\ Computed \subseteq Applicable
    /\ Len(fingerprint.computed) = Cardinality(Computed)
    /\ fingerprint.calls # <<>> => Computed = Applicable
    /\ \A k \in DOMAIN fingerprint.calls :
          /\ fingerprint.calls[k].f \in Computed
          /\ Cardinality(ListenerCalls(fingerprint.calls[k].l, fingerprint.calls[k].f)) = 1
    /\ (fingerprint.result = Success /\ Len(fingerprint.applicable) > 0) =>
          /\ Computed = Applicable
          /\ Len(fingerprint.calls) = fingerprint.listeners * Cardinality(Applicable)
          /\ \A l \in 1..fingerprint.listeners : \A a \in Applicable :
                \E k \in ListenerCalls(l, a) :
                    /\ fingerprint.calls[k].state = "resolved"
                    /\ fingerprint.calls[k].during = "held"

C18_Witness ==
    /\ fingerprint.result = Success
    /\ Len(fingerprint.applicable) = MaxFingerprinters
    /\ Cardinality(Applicable) = 1
    /\ fingerprint.listeners = MaxListeners
    /\ Len(fingerprint.calls) = MaxListeners


\* ---------------------------------------------------------------- C19

\* C19 (Spec): an invocation of initiateBuild queries and sends at most
\* once; every other collaborator call of the invocation (startBuild, the
\* status updates, the tag and link calls) comes after the completed send
\* and carries the identifier that was sent; that identifier is the one read
\* plus 1; and an invocation that ends with a build outcome has sent exactly
\* once.
C19_AllocatedOnceBeforeUse ==
    \A p \in Procs :
        /\ Cardinality(Calls(p, "query")) <= 1
        /\ Cardinality(Calls(p, "send")) <= 1
        /\ \A i \in DOMAIN trace[p] :
              trace[p][i].op \notin {"query", "send"} =>
                 /\ buildNo[p] # <<>>
                 /\ \E s \in Calls(p, "send") : s < i
                 /\ trace[p][i].no = buildNo[p]
        /\ buildNo[p] # <<>> =>
              /\ \E q \in Calls(p, "query"), s \in Calls(p, "send") :
                    q < s /\ trace[p][s].no = buildNo[p]
              /\ StrToNum(buildNo[p]) = StrToNum(SelectIdentifier(qres[p])) + 1
              /\ \E n \in DOMAIN allocated[repo[p]] : allocated[repo[p]][n] = buildNo[p]
        /\ (Done(p) /\ result[p].code >= 0) =>
              Cardinality(Calls(p, "send")) = 1
        /\ \A i \in Calls(p, "createTagReference") :
              trace[p][i].arg = version[p]

\* C19 witness: a successful build with its status updates and its tag, all
\* after the allocation.
C19_Witness ==
    \E p \in Procs :
        /\ Done(p)
        /\ result[p] = Success
        /\ Calls(p, "createTagReference") # {}
        /\ StatusCalls(p, "started") # {}
        /\ StatusCalls(p, "passed") # {}
        /\ BuildTagName(version[p], buildNo[p]) \in tagRefs


\* ============================================================ executeTag
\* (src/src/internal/delivery/build/executeTag.ts, 34-69)

DuplicateErr == "duplicateErr"  \* the tag store answers that the name exists

\* readSdmVersion(owner, name, providerId, sha, branch, context): the version
\* persisted for the commit
SdmVersion(sha) == IF sha = "sha1" THEN "1.0.0-2018" ELSE "1.0.1-2018"

\* the mutant names the tag after the version and the invocation
TagNameWithRun(v, q) == <<v, q>>

\* const tag: Tag = { tag: version, ... }: the name is the version alone
TagName(v, q) == <<v>>

\* the tag store takes a reference whose name it does not hold yet
TagStoreAccepts(name, refs) ==
    \A i \in DOMAIN refs : refs[i] # name

TagOthersUnchanged ==
    UNCHANGED <<buildVars, tagObjs, tagRefs, docker, versioner, fingerprint,
               progressLog, deploy>>

\* the promise of the invocation of q rejects with e
TagRejects(q, e) ==
    [tagging EXCEPT !.runs[q].pc = "done", !.runs[q].result = Escaped(e)]

\* the goal is invoked for the status of a commit:
\* projectLoader.doWithProject({credentials, id, context, readOnly: true}, ..)
TagStart(q) ==
    /\ tagging.runs[q].pc = "idle"
    /\ \E c \in {"sha1", "sha2"} :
          \/ tagging' = [tagging EXCEPT !.runs[q].pc = "version",
                                        !.runs[q].commit = c]
          \/ tagging' = TagRejects(q, "projectErr")
    /\ TagOthersUnchanged

\* const version = await readSdmVersion(...)
TagReadVersion(q) ==
    /\ tagging.runs[q].pc = "version"
    /\ \/ tagging' = [tagging EXCEPT
              !.runs[q].pc = "createTag",
              !.runs[q].version = SdmVersion(tagging.runs[q].commit)]
       \/ tagging' = TagRejects(q, VersionErr)
    /\ TagOthersUnchanged

\* createTagForStatus: await createTag(credentials, id, tag)
TagCreateTag(q) ==
    /\ tagging.runs[q].pc = "createTag"
    /\ \/ tagging' = [tagging EXCEPT
              !.runs[q].pc = "createRef",
              !.objects = Append(@, TagForStatus(tagging.runs[q].commit,
                                        <<"message of", tagging.runs[q].commit>>,
                                        TagName(tagging.runs[q].version, q)))]
       \/ tagging' = TagRejects(q, TagErr)
    /\ TagOthersUnchanged

\* createTagForStatus: await createTagReference(credentials, id, tag), and
\* the return of Success
TagCreateReference(q) ==
    /\ tagging.runs[q].pc = "createRef"
    /\ LET name == TagName(tagging.runs[q].version, q)
           called == [tagging EXCEPT !.runs[q].attempted = name,
                                     !.runs[q].pc = "done",
                                     !.log = Append(@, q)]
       IN  \/ /\ TagStoreAccepts(name, tagging.refs)
              /\ tagging' = [called EXCEPT !.refs = Append(@, name),
                                           !.runs[q].result = Success]
           \/ /\ ~TagStoreAccepts(name, tagging.refs)
              /\ tagging' = [called EXCEPT !.runs[q].result = Escaped(DuplicateErr)]
           \/ tagging' = [called EXCEPT !.runs[q].result = Escaped(TagErr)]
    /\ TagOthersUnchanged

InitTag ==
    /\ BuildIdle
    /\ docker = DockerIdle
    /\ versioner = VersionerIdle
    /\ fingerprint = FingerprintIdle
    /\ tagging = TaggingIdle
    /\ progressLog = ProgressLogIdle
    /\ deploy = DeployIdle

NextTag ==
    \E q \in TagProcs :
        \/ TagStart(q)
        \/ TagReadVersion(q)
        \/ TagCreateTag(q)
        \/ TagCreateReference(q)

SpecTag == InitTag /\ [][NextTag]_vars

\* the position of the createTagReference call of invocation q
LogPosition(q) == CHOOSE i \in DOMAIN tagging.log : tagging.log[i] = q

\* C20: executeTag asks the tag store for the name of the persisted version
\* whether or not the name exists; of the invocations for one commit at most
\* one returns Success, the first whose createTagReference call the store
\* answers, and every later one is rejected for the duplicate name; the
\* store never holds two references of one name.
C20_NotIdempotent ==
    /\ NoDuplicates(tagging.refs)
    /\ \A q \in TagProcs :
          tagging.runs[q].attempted # <<>> =>
             tagging.runs[q].attempted = <<SdmVersion(tagging.runs[q].commit)>>
    /\ \A q1, q2 \in TagProcs :
          (q1 # q2 /\ tagging.runs[q1].commit = tagging.runs[q2].commit
                   /\ tagging.runs[q1].result = Success) =>
             /\ tagging.runs[q2].result # Success
             /\ (/\ tagging.runs[q2].attempted # <<>>
                 /\ tagging.runs[q2].result \in {Success, Escaped(DuplicateErr)}
                 /\ LogPosition(q1) < LogPosition(q2)) =>
                    tagging.runs[q2].result = Escaped(DuplicateErr)
    /\ \A q \in TagProcs :
          tagging.runs[q].result = Escaped(DuplicateErr) =>
             \E q1 \in TagProcs :
                /\ q1 # q
                /\ tagging.runs[q1].commit = tagging.runs[q].commit
                /\ tagging.runs[q1].result = Success
                /\ LogPosition(q1) < LogPosition(q)

\* C20 witness: two invocations for the same commit have ended, the first
\* with Success and the second rejected for the duplicate name.
C20_Witness ==
    \E q1, q2 \in TagProcs :
        /\ q1 # q2
        /\ tagging.runs[q1].commit = tagging.runs[q2].commit
        /\ tagging.runs[q1].result = Success
        /\ tagging.runs[q2].result = Escaped(DuplicateErr)
        /\ Len(tagging.objects) = 2


\* ---------------------------------------------------------------- C21

\* C21 (Spec): every tag object has the name <version, build identifier>,
\* the sha of a push as target and the message given by createBuildTag;
\* a reference exists only for a name that has a tag object; an invocation
\* calls createTag and createTagReference at most once each, createTag only
\* after it reported "passed", and createTagReference only after its
\* createTag call, whose tag object then exists with the name made of the
\* version read and the identifier of the invocation.
C21_TagObjectBeforeReference ==
    /\ \A t \in tagObjs :
          /\ t.type = "commit"
          /\ t.message = "Tag created by SDM"
          /\ t.object \in {"sha1", "sha2"}
          /\ Len(t.tag) = 2
          /\ t.tag[1] \in Versions
          /\ StrToNum(t.tag[2]) >= 1
    /\ \A n \in tagRefs : \E t \in tagObjs : t.tag = n
    /\ \A p \in Procs :
          /\ Cardinality(Calls(p, "createTag")) <= 1
          /\ Cardinality(Calls(p, "createTagReference")) <= 1
          /\ \A i \in Calls(p, "createTag") :
                /\ \E j \in StatusCalls(p, "passed") : j < i
                /\ StatusCalls(p, "failed") = {}
          /\ \A i \in Calls(p, "createTagReference") :
                /\ \E j \in Calls(p, "createTag") : j < i
                /\ [tag |-> <<version[p], buildNo[p]>>,
                    message |-> "Tag created by SDM",
                    object |-> PushSha(repo[p]),
                    type |-> "commit"] \in tagObjs

\* C21 witnesses: an invocation created the tag object and its reference,
\* and another one ended in createTag without a reference call.
C21_Witness ==
    \E p, q \in Procs :
        /\ Done(p)
        /\ Calls(p, "createTagReference") # {}
        /\ <<version[p], buildNo[p]>> \in tagRefs
        /\ Done(q)
        /\ Calls(q, "createTag") # {}
        /\ Calls(q, "createTagReference") = {}


\* ============================================ rolarAndDashboardLogFactory
\* (src/unnamed/part_000, 32-50)

\* Number of goals the factory is asked a log for.
MaxLogs == 2

\* new LoggingProgressLog(name, "info")
LoggingProgressLog(name) ==
    [kind |-> "logging", name |-> name, url |-> "none", level |-> "info"]

\* new DashboardDisplayProgressLog(rolarBaseUrl, bufferSize, flushInterval,
\* context, sdmGoal)
DashboardDisplayProgressLog(url, name) ==
    [kind |-> "dashboard", name |-> name, url |-> url, level |-> "none"]

\* createEphemeralProgressLog(context, sdmGoal)
EphemeralProgressLog(name) ==
    [kind |-> "ephemeral", name |-> name, url |-> "none", level |-> "none"]

\* new WriteToAllProgressLog(name, log1, log2)
WriteToAllProgressLog(name, log1, log2) ==
    [kind |-> "writeToAll", name |-> name, sinks |-> <<log1, log2>>]

\* if (rolarBaseUrl): undefined and the empty string are falsy
Truthy(url) == url \notin {"undefined", ""}

\* the mutant gives the dashboard log alone when Rolar is configured
DashboardOnly(url, name, fallback) ==
    IF Truthy(url)
    THEN << DashboardDisplayProgressLog(url, name) >>
    ELSE << fallback >>

\* lines 35-44: the logs persistentLogFactory hands to
\* firstAvailableProgressLog, in order
PersistentCandidates(url, name, fallback) ==
    IF Truthy(url)
    THEN << DashboardDisplayProgressLog(url, name), fallback >>
    ELSE << fallback >>

\* isAvailable() of a log: the dashboard log is available when the Rolar
\* service answers, the logging log always
IsAvailable(log, rolarUp) ==
    IF log.kind = "dashboard" THEN rolarUp ELSE TRUE

\* firstAvailableProgressLog(log, ...moreLogs): the first log that is
\* available, as a sequence of one log, or none (it throws)
FirstAvailableProgressLog(logs, rolarUp) ==
    LET avail == { i \in DOMAIN logs : IsAvailable(logs[i], rolarUp) }
    IN  IF avail = {} THEN <<>>
        ELSE << logs[CHOOSE i \in avail : \A j \in avail : i <= j] >>

ProgressLogOthersUnchanged ==
    UNCHANGED <<buildVars, tagObjs, tagRefs, docker, versioner, fingerprint,
               tagging, deploy>>

\* rolarAndDashboardLogFactory(rolarBaseUrl): lines 35-44 choose the
\* persistentLogFactory
LogFactoryCreate ==
    /\ progressLog.pc = "create"
    /\ progressLog' = [progressLog EXCEPT
          !.pc = "ready",
          !.persistentLogFactory =
              IF Truthy(progressLog.rolarBaseUrl) THEN "rolar" ELSE "fallback"]
    /\ ProgressLogOthersUnchanged

\* the factory is called for a goal (lines 45-47): the persistent log is
\* awaited; the Rolar service answers or not
LogFactoryPersistent ==
    /\ progressLog.pc = "ready"
    /\ Len(progressLog.logs) < MaxLogs
    /\ \E name \in {"build", "deploy"}, rolarUp \in BOOLEAN :
          LET found == FirstAvailableProgressLog(
                          PersistentCandidates(progressLog.rolarBaseUrl, name,
                                               LoggingProgressLog(name)),
                          rolarUp)
          IN  progressLog' =
                 IF found = <<>>
                 THEN [progressLog EXCEPT !.pc = "failed", !.goal = name,
                          !.rolarUp = rolarUp,
                          !.result = Escaped("No logger is available")]
                 ELSE [progressLog EXCEPT !.pc = "ephemeral", !.goal = name,
                          !.rolarUp = rolarUp, !.persistentLog = found]
    /\ ProgressLogOthersUnchanged

\* line 48: the ephemeral log is awaited and the write-to-all log returned
LogFactoryReturn ==
    /\ progressLog.pc = "ephemeral"
    /\ progressLog' = [progressLog EXCEPT
          !.pc = "ready",
          !.persistentLog = <<>>,
          !.logs = Append(@, [goal |-> progressLog.goal,
                              rolarUp |-> progressLog.rolarUp,
                              log |-> WriteToAllProgressLog(progressLog.goal,
                                        EphemeralProgressLog(progressLog.goal),
                                        progressLog.persistentLog[1])])]
    /\ ProgressLogOthersUnchanged

InitProgressLog ==
    /\ BuildIdle
    /\ docker = DockerIdle
    /\ versioner = VersionerIdle
    /\ fingerprint = FingerprintIdle
    /\ tagging = TaggingIdle
    /\ \E url \in {"undefined", "", "https://rolar"} :
          progressLog = [ProgressLogIdle EXCEPT !.pc = "create", !.rolarBaseUrl = url]
    /\ deploy = DeployIdle

NextProgressLog ==
    \/ LogFactoryCreate
    \/ LogFactoryPersistent
    \/ LogFactoryReturn

SpecProgressLog == InitProgressLog /\ [][NextProgressLog]_vars

\* C22: the creation of a log never fails, and every log the factory
\* returned is a write-to-all log named after the goal over two sinks, the
\* ephemeral log of the goal and then the persistent log: the dashboard log
\* when a Rolar base URL is configured and the Rolar service answered, the
\* logging log of the goal otherwise.
C22_LogDegradesGracefully ==
    /\ progressLog.pc # "failed"
    /\ progressLog.result = NoResult
    /\ \A i \in DOMAIN progressLog.logs :
          LET e == progressLog.logs[i]
          IN  /\ e.log.kind = "writeToAll"
              /\ e.log.name = e.goal
              /\ Len(e.log.sinks) = 2
              /\ e.log.sinks[1] =
                    [kind |-> "ephemeral", name |-> e.goal, url |-> "none",
                     level |-> "none"]
              /\ e.log.sinks[2] =
                    IF progressLog.rolarBaseUrl = "https://rolar" /\ e.rolarUp
                    THEN [kind |-> "dashboard", name |-> e.goal,
                          url |-> "https://rolar", level |-> "none"]
                    ELSE [kind |-> "logging", name |-> e.goal, url |-> "none",
                          level |-> "info"]

\* C22 witness: with Rolar configured, a log was created while the service
\* did not answer and is backed by the logging log, and another while it
\* answered.
C22_Witness ==
    /\ progressLog.rolarBaseUrl = "https://rolar"
    /\ \E i, j \in DOMAIN progressLog.logs :
          /\ ~progressLog.logs[i].rolarUp
          /\ progressLog.logs[i].log.sinks[2].kind = "logging"
          /\ progressLog.logs[j].rolarUp
          /\ progressLog.logs[j].log.sinks[2].kind = "dashboard"


\* ---------------------------------------------------------------- C23

\* C23 (SpecSeq): an allocation whose query returned no record, or two or
\* more, sends and returns "1" whatever the records hold; so every
\* identifier returned for a repository that started with duplicate records
\* is "1".
C23_NotOneRecordStartsFromZero ==
    /\ \A p \in Procs :
          (buildNo[p] # <<>> /\ Len(qres[p]) # 1) =>
             /\ buildNo[p] = <<1>>
             /\ \A i \in Calls(p, "send") : trace[p][i].no = <<1>>
    /\ \A r \in Repos :
          Len(store0[r]) >= 2 =>
             \A n \in DOMAIN allocated[r] : allocated[r][n] = <<1>>

\* C23 witness: a repository with duplicate records, one of them holding
\* MaxStored, had two allocations one after the other, and the second
\* returned an identifier that is not greater than the first.
C23_Witness ==
    \E r \in Repos :
        /\ Len(store0[r]) >= 2
        /\ \E k \in DOMAIN store0[r] : StrToNum(store0[r][k]) = MaxStored
        /\ Len(allocated[r]) >= 2
        /\ StrToNum(allocated[r][2]) <= StrToNum(allocated[r][1])


\* ---------------------------------------------------------------- C24

\* C24 (Spec): when the build result carries no error and the "passed"
\* update throws, the invocation ends with no tag call, no link call and no
\* "failed" update, its status updates are started and passed, and it
\* returns the success result.
C24_PassedUpdateThrows ==
    \A p \in Procs :
        (Done(p) /\ br[p].outcome = "ok" /\ exitErr[p] = StatusErr) =>
            /\ TagCalls(p) = {}
            /\ LinkCalls(p) = {}
            /\ StatusCalls(p, "failed") = {}
            /\ StatusSeq(p) = <<"started", "passed">>
            /\ result[p] = Success

\* C24 witness: the "passed" update of a build with an artifact threw and
\* the invocation returned.
C24_Witness ==
    \E p \in Procs :
        /\ Done(p)
        /\ br[p].outcome = "ok"
        /\ exitErr[p] = StatusErr
        /\ rb[p].art
        /\ result[p] = Success


\* ---------------------------------------------------------------- C25

\* C25 (SpecVersioner): whatever the exit code of npm, the versioner returns
\* the version it computed; after an exit code other than 0 package.json
\* still holds the declared version, which is not the version returned; the
\* versioner rejects only when a call throws, never for an exit code.
C25_ExitCodeIgnored ==
    /\ versioner.pc = "done" =>
          /\ versioner.result = versioner.version
          /\ versioner.result =
                versioner.declared \o <<"-">>
                   \o SubSeq(versioner.result, Len(versioner.declared) + 2,
                             Len(versioner.result))
          /\ versioner.exit = 0 => versioner.packageJson = versioner.result
          /\ versioner.exit # 0 =>
                /\ versioner.packageJson = versioner.declared
                /\ versioner.packageJson # versioner.result
    /\ versioner.pc = "rejected" => versioner.exit = 0

\* C25 witness: npm exited with a code other than 0 and the versioner
\* returned the version.
C25_Witness ==
    /\ versioner.pc = "done"
    /\ versioner.exit # 0
    /\ versioner.result = versioner.version
    /\ Len(versioner.result) > Len(versioner.declared)
    /\ versioner.packageJson = versioner.declared


\* ================================================= OnDeployStatus.handle
\* (src/unnamed/part_001, 54-76)

\* Number of registered deployment listeners.
MaxDeployListeners == 4

\* StagingDeploymentGoal.context
StagingDeploymentContext == "staging-deploy"

\* line 59: if (status.context !== StagingDeploymentGoal.context)
NotStagingDeployment(context) == context # StagingDeploymentContext

\* lines 67-73: the DeploymentListenerInvocation of the event
Dil(context) ==
    [status |-> context, id |-> "id", addressChannels |-> "addressChannels",
     credentials |-> "credentials"]

DeployOthersUnchanged ==
    UNCHANGED <<buildVars, tagObjs, tagRefs, docker, versioner, fingerprint,
               tagging, progressLog>>

\* the promise of handle rejects with e
DeployRejects(d, e) == [d EXCEPT !.pc = "done", !.result = Escaped(e)]

\* lines 56-62: another context than that of the staging deployment goal
\* returns Success at once
DeployStart ==
    /\ deploy.pc = "start"
    /\ deploy' =
          IF NotStagingDeployment(deploy.context)
          THEN [deploy EXCEPT !.pc = "done", !.result = Success]
          ELSE [deploy EXCEPT !.pc = "resolve"]
    /\ DeployOthersUnchanged

\* lines 63-65: addressChannelsFor, toRemoteRepoRef, eventHandlerCredentials;
\* a resolver may throw
DeployResolve ==
    /\ deploy.pc = "resolve"
    /\ \/ deploy' = [deploy EXCEPT !.pc = "notify"]
       \/ deploy' = DeployRejects(deploy, "resolveErr")
    /\ DeployOthersUnchanged

\* line 74, params.listeners.map(l => l(dil)): the next listener is called;
\* it returns a promise, or throws before returning one, which ends the map
DeployNotify ==
    /\ deploy.pc = "notify"
    /\ Len(deploy.calls) < deploy.listeners
    /\ LET l == Len(deploy.calls) + 1
       IN  \/ deploy' = [deploy EXCEPT
                 !.calls = Append(@, [l |-> l, dil |-> Dil(deploy.context),
                                      state |-> "pending"])]
           \/ deploy' = DeployRejects(
                 [deploy EXCEPT
                     !.calls = Append(@, [l |-> l, dil |-> Dil(deploy.context),
                                          state |-> "thrown"])],
                 "listenerErr")
    /\ DeployOthersUnchanged

\* every listener was called
AllListenersCalled(d) ==
    d.pc = "notify" /\ Len(d.calls) = d.listeners

\* the promise of a listener call settles, once the map is over: resolved,
\* or rejected, which rejects Promise.all while handle awaits it
DeploySettle ==
    /\ AllListenersCalled(deploy) \/ deploy.pc = "done"
    /\ \E k \in DOMAIN deploy.calls :
          /\ deploy.calls[k].state = "pending"
          /\ \/ deploy' = [deploy EXCEPT !.calls[k].state = "resolved"]
             \/ deploy' =
                    LET d == [deploy EXCEPT !.calls[k].state = "rejected"]
                    IN  IF deploy.pc = "done" THEN d
                        ELSE DeployRejects(d, "listenerErr")
    /\ DeployOthersUnchanged

\* lines 74-75: await Promise.all(...) resolves when every call has
\* resolved, and handle returns Success
DeployFinish ==
    /\ AllListenersCalled(deploy)
    /\ \A k \in DOMAIN deploy.calls : deploy.calls[k].state = "resolved"
    /\ deploy' = [deploy EXCEPT !.pc = "done", !.result = Success]
    /\ DeployOthersUnchanged

\* handle is invoked once, for a status of any context (status.context),
\* with any number of listeners
InitDeploy ==
    /\ BuildIdle
    /\ docker = DockerIdle
    /\ versioner = VersionerIdle
    /\ fingerprint = FingerprintIdle
    /\ tagging = TaggingIdle
    /\ progressLog = ProgressLogIdle
    /\ \E c \in {StagingDeploymentContext, "production-deploy", "build"},
          n \in 0..MaxDeployListeners :
          deploy = [DeployIdle EXCEPT !.pc = "start", !.context = c,
                                      !.listeners = n]

NextDeploy ==
    \/ DeployStart
    \/ DeployResolve
    \/ DeployNotify
    \/ DeploySettle
    \/ DeployFinish

SpecDeploy == InitDeploy /\ [][NextDeploy]_vars


\* C26: a status of another context returns Success with no listener
\* called, listeners are called only for the context of the staging
\* deployment goal, and once handle has ended for that context, its
\* resolvers having answered, every registered listener has been called
\* exactly once with the invocation of the event; Success is returned only
\* when every call has resolved.
C26_ListenersExactlyOnStaging ==
    /\ deploy.calls # <<>> => deploy.context = StagingDeploymentContext
    /\ (deploy.pc = "done" /\ deploy.context # StagingDeploymentContext) =>
          deploy.result = Success /\ deploy.calls = <<>>
    /\ (deploy.pc = "done" /\ deploy.context = StagingDeploymentContext
           /\ deploy.result # Escaped("resolveErr")) =>
          /\ \A l \in 1..deploy.listeners :
                Cardinality({ k \in DOMAIN deploy.calls :
                                 deploy.calls[k].l = l }) = 1
          /\ \A k \in DOMAIN deploy.calls :
                deploy.calls[k].dil = Dil(deploy.context)
          /\ deploy.result = Success =>
                \A k \in DOMAIN deploy.calls : deploy.calls[k].state = "resolved"

====
